---- MODULE Spec2Model ----
(***************************************************************************)
(* A model of the SimFin API client (src/index.js): the Joi parameter      *)
(* schemas, the request builder makeRequest, the seven network-issuing     *)
(* methods, the three catalog getters, and the HTTP collaborator           *)
(* (request-promise) that settles each request it was handed.              *)
(*                                                                         *)
(* JavaScript values are records [t, n, e, s, a]:                          *)
(*   t  the type tag: "undefined", "null", "boolean", "number", "nan",     *)
(*      "string", "array" ("nan" is the number NaN);                       *)
(*   n,e  a number is n / 10^e (e decimal places, no trailing zero);       *)
(*        a boolean is n = 1 (true) or n = 0 (false);                      *)
(*   s  the characters of a string;                                        *)
(*   a  the items of an array (values themselves).                         *)
(* Strings are TLA+ strings, i.e. sequences of characters: Len, \o and     *)
(* SubSeq apply to them.                                                   *)
(***************************************************************************)
EXTENDS Integers, Sequences, FiniteSets, TLC

VARIABLES baseURL, token, calls, wire, ret

vars == <<baseURL, token, calls, wire, ret>>

-----------------------------------------------------------------------------
(* JavaScript values *)

Undefined == [t |-> "undefined", n |-> 0, e |-> 0, s |-> "", a |-> <<>>]
Null == [t |-> "null", n |-> 0, e |-> 0, s |-> "", a |-> <<>>]
NaN == [t |-> "nan", n |-> 0, e |-> 0, s |-> "", a |-> <<>>]
Bool(b) == [t |-> "boolean", n |-> IF b THEN 1 ELSE 0, e |-> 0, s |-> "", a |-> <<>>]
Str(s) == [t |-> "string", n |-> 0, e |-> 0, s |-> s, a |-> <<>>]
Arr(items) == [t |-> "array", n |-> 0, e |-> 0, s |-> "", a |-> items]

\* The number n / 10^e, with the trailing zeros of the fraction dropped.
RECURSIVE Dec(_, _)
Dec(n, e) ==
    IF e > 0 /\ n % 10 = 0 THEN Dec(n \div 10, e - 1)
    ELSE [t |-> "number", n |-> n, e |-> e, s |-> "", a |-> <<>>]

Num(n) == Dec(n, 0)

Ch(s, i) == SubSeq(s, i, i)
Rest(s) == SubSeq(s, 2, Len(s))

Digits == {"0", "1", "2", "3", "4", "5", "6", "7", "8", "9"}
Letters ==
    {"a", "b", "c", "d", "e", "f", "g", "h", "i", "j", "k", "l", "m",
     "n", "o", "p", "q", "r", "s", "t", "u", "v", "w", "x", "y", "z",
     "A", "B", "C", "D", "E", "F", "G", "H", "I", "J", "K", "L", "M",
     "N", "O", "P", "Q", "R", "S", "T", "U", "V", "W", "X", "Y", "Z"}

DigitVal(c) ==
    CASE c = "0" -> 0 [] c = "1" -> 1 [] c = "2" -> 2 [] c = "3" -> 3
      [] c = "4" -> 4 [] c = "5" -> 5 [] c = "6" -> 6 [] c = "7" -> 7
      [] c = "8" -> 8 [] c = "9" -> 9

DigitChar(d) ==
    CASE d = 0 -> "0" [] d = 1 -> "1" [] d = 2 -> "2" [] d = 3 -> "3"
      [] d = 4 -> "4" [] d = 5 -> "5" [] d = 6 -> "6" [] d = 7 -> "7"
      [] d = 8 -> "8" [] d = 9 -> "9"

RECURSIVE AllIn(_, _)
AllIn(s, set) == Len(s) = 0 \/ (Ch(s, 1) \in set /\ AllIn(Rest(s), set))

\* The value of a string of decimal digits, read after the digits in acc.
RECURSIVE DigitsVal(_, _)
DigitsVal(s, acc) ==
    IF Len(s) = 0 THEN acc ELSE DigitsVal(Rest(s), 10 * acc + DigitVal(Ch(s, 1)))

\* The decimal digits of a natural number.
RECURSIVE NatStr(_)
NatStr(k) == IF k < 10 THEN DigitChar(k) ELSE NatStr(k \div 10) \o DigitChar(k % 10)

RECURSIVE Pow10(_)
Pow10(k) == IF k = 0 THEN 1 ELSE 10 * Pow10(k - 1)

\* k written with exactly w digits (leading zeros).
RECURSIVE PadStr(_, _)
PadStr(k, w) == IF w = 0 THEN "" ELSE PadStr(k \div 10, w - 1) \o DigitChar(k % 10)

\* Where the first "." of s is, 0 when it has none.
RECURSIVE DotAt(_, _)
DotAt(s, i) ==
    IF i > Len(s) THEN 0 ELSE IF Ch(s, i) = "." THEN i ELSE DotAt(s, i + 1)

(* Number(value) for a string without white space, exponent, radix prefix or *)
(* "Infinity": an optional "-", then digits with an optional fraction, one   *)
(* digit at least; NaN for every other string (the empty one included, as    *)
(* parseFloat("") is NaN).                                                   *)
ParseUnsigned(s) ==
    LET dot == DotAt(s, 1)
        ip == IF dot = 0 THEN s ELSE SubSeq(s, 1, dot - 1)
        fp == IF dot = 0 THEN "" ELSE SubSeq(s, dot + 1, Len(s))
    IN  IF AllIn(ip, Digits) /\ AllIn(fp, Digits) /\ Len(ip) + Len(fp) > 0
        THEN Dec(DigitsVal(ip \o fp, 0), Len(fp))
        ELSE NaN

ParseFloat(s) ==
    IF Len(s) > 0 /\ Ch(s, 1) = "-"
    THEN LET u == ParseUnsigned(Rest(s))
         IN  IF u.t = "number" THEN Dec(0 - u.n, u.e) ELSE NaN
    ELSE ParseUnsigned(s)

\* Number.prototype.toString of n / 10^e.
NumStr(v) ==
    LET m == IF v.n < 0 THEN 0 - v.n ELSE v.n
        p == Pow10(v.e)
    IN  (IF v.n < 0 THEN "-" ELSE "")
        \o NatStr(m \div p)
        \o (IF v.e > 0 THEN "." \o PadStr(m % p, v.e) ELSE "")

\* String(v) of a value that is no array.
ScalarStr(v) ==
    CASE v.t = "undefined" -> "undefined"
      [] v.t = "null" -> "null"
      [] v.t = "boolean" -> (IF v.n = 1 THEN "true" ELSE "false")
      [] v.t = "number" -> NumStr(v)
      [] v.t = "nan" -> "NaN"
      [] v.t = "string" -> v.s
      [] OTHER -> ""

\* Array.prototype.join: undefined and null items join as the empty string.
ItemStr(v) == IF v.t \in {"undefined", "null"} THEN "" ELSE ScalarStr(v)

\* A faulty join, last item first.
RECURSIVE Join_Reversed(_, _)
Join_Reversed(items, sep) ==
    IF Len(items) = 0 THEN ""
    ELSE IF Len(items) = 1 THEN ItemStr(items[1])
    ELSE Join_Reversed(Tail(items), sep) \o sep \o ItemStr(items[1])

RECURSIVE Join(_, _)
Join(items, sep) ==
    IF Len(items) = 0 THEN ""
    ELSE IF Len(items) = 1 THEN ItemStr(items[1])
    ELSE ItemStr(items[1]) \o sep \o Join(Tail(items), sep)

\* `${v}` in a template string: String(v).
TemplateStr(v) == IF v.t = "array" THEN Join(v.a, ",") ELSE ScalarStr(v)

\* The truthiness of a value: what `v ? x : y` and `if (v)` test.
Truthy(v) ==
    CASE v.t \in {"undefined", "null", "nan"} -> FALSE
      [] v.t = "boolean" -> v.n = 1
      [] v.t = "number" -> v.n # 0
      [] v.t = "string" -> Len(v.s) > 0
      [] OTHER -> TRUE

-----------------------------------------------------------------------------
(* The constants of src/index.js *)

statementTypes == <<"pl", "bs", "cf">>
periodTypes == <<"Q1", "Q2", "Q3", "Q4", "H1", "H2", "9M", "FY">>

indicatorsMap ==
    ("0-3" :> "Number of employees") @@
    ("0-5" :> "Founding year") @@
    ("0-6" :> "Headquarter location") @@
    ("0-73" :> "Sector classification") @@
    ("0-71" :> "Ticker") @@
    ("0-31" :> "Last closing price") @@
    ("4-11" :> "Market capitalisation") @@
    ("0-64" :> "Common shares outstanding") @@
    ("0-65" :> "Preferred shares outstanding") @@
    ("0-66" :> "Average shares outstanding, basic") @@
    ("0-67" :> "Average shares outstanding, diluted") @@
    ("1-1" :> "Revenues") @@
    ("1-2" :> "Cost of goods sold") @@
    ("1-4" :> "Gross profit") @@
    ("1-11" :> "Operating expenses") @@
    ("1-12" :> "Selling, general and administrative") @@
    ("1-15" :> "Research and development expenses") @@
    ("1-19" :> "Operating income (EBIT)") @@
    ("4-10" :> "EBITDA") @@
    ("1-21" :> "Net interest expense") @@
    ("1-28" :> "Pretax income (adjusted)") @@
    ("1-43" :> "Pretax income") @@
    ("1-44" :> "Income taxes") @@
    ("1-49" :> "Income from continuing operations") @@
    ("1-58" :> "Net income (common shareholders)") @@
    ("2-1" :> "Cash and cash-equivalents") @@
    ("2-5" :> "Net receivables") @@
    ("2-21" :> "Total current assets") @@
    ("2-22" :> "Net property, plant and equipment") @@
    ("2-41" :> "Total assets") @@
    ("2-43" :> "Accounts payable") @@
    ("2-47" :> "Current debt") @@
    ("2-57" :> "Total current liabilities") @@
    ("2-58" :> "Non current debt") @@
    ("4-6" :> "Total debt") @@
    ("2-73" :> "Total liabilities") @@
    ("2-74" :> "Preferred equity") @@
    ("2-76" :> "Common stock") @@
    ("2-82" :> "Equity before minorities") @@
    ("2-83" :> "Minority interest") @@
    ("3-2" :> "Depreciation and amortisation") @@
    ("3-7" :> "Change in working capital") @@
    ("3-13" :> "Operating cash flow") @@
    ("3-14" :> "Net change in PP & E and intangibles") @@
    ("3-31" :> "Investing cash flow") @@
    ("3-32" :> "Dividends paids") @@
    ("3-43" :> "Financing cash flow") @@
    ("3-46" :> "Net change in cash") @@
    ("4-25" :> "Free cash flow") @@
    ("4-0" :> "Gross margin") @@
    ("4-1" :> "Operating margin") @@
    ("4-2" :> "Net profit margin") @@
    ("4-7" :> "Return on equity") @@
    ("4-9" :> "Return on assets") @@
    ("4-28" :> "Free cash flow to net income") @@
    ("4-3" :> "Current ratio") @@
    ("4-4" :> "Liabilities to equity ratio") @@
    ("4-5" :> "Debt to assets ratio") @@
    ("4-12" :> "Earnings per share, basic") @@
    ("4-13" :> "Earnings per share, diluted") @@
    ("4-17" :> "Sales per share") @@
    ("4-18" :> "Book value per share") @@
    ("4-26" :> "Free cash flow per share") @@
    ("4-29" :> "Dividends per share") @@
    ("4-14" :> "Price to earnings ratio") @@
    ("4-15" :> "Price to sales ratio") @@
    ("4-16" :> "Price to book value") @@
    ("4-27" :> "Price to free cash flow") @@
    ("4-20" :> "Enterprise value") @@
    ("4-21" :> "EV/EBITDA") @@
    ("4-22" :> "EV/Sales") @@
    ("4-31" :> "EV/FCF") @@
    ("4-23" :> "Book to market value") @@
    ("4-24" :> "Operating income / EV") @@
    ("4-30" :> "Pietroski F-Score")

Range(f) == {f[i] : i \in DOMAIN f}

-----------------------------------------------------------------------------
(* Joi, with its default options: convert is on, a key is optional unless  *)
(* required() marks it.                                                     *)

TickerMin == 2
TickerMax == 10
FiscalYearMin == 1900
FiscalYearMax == 2018

\* Joi.string(): a string, and not the empty one.
JoiString(v) == v.t = "string" /\ Len(v.s) > 0

\* Joi.number() reads a string as the number it spells (convert); the value
\* the rules then test.
JoiNumberValue(v) == IF v.t = "string" THEN ParseFloat(v.s) ELSE v

\* Joi.number().integer()
JoiInteger(v) == LET x == JoiNumberValue(v) IN x.t = "number" /\ x.e = 0

\* /^[0-4]-(\d){1,2}$/
IndicatorRegex(s) ==
    /\ Len(s) \in {3, 4}
    /\ Ch(s, 1) \in {"0", "1", "2", "3", "4"}
    /\ Ch(s, 2) = "-"
    /\ AllIn(SubSeq(s, 3, Len(s)), Digits)

\* /^TTM(-(\d){1,2}(\.(0|25|5|50|75))?)?$/
TTMRegex(s) ==
    /\ Len(s) >= 3
    /\ SubSeq(s, 1, 3) = "TTM"
    /\ \/ Len(s) = 3
       \/ /\ Ch(s, 4) = "-"
          /\ LET b == SubSeq(s, 5, Len(s))
                 dot == DotAt(b, 1)
                 ip == IF dot = 0 THEN b ELSE SubSeq(b, 1, dot - 1)
             IN  /\ Len(ip) \in {1, 2}
                 /\ AllIn(ip, Digits)
                 /\ \/ dot = 0
                    \/ SubSeq(b, dot + 1, Len(b)) \in {"0", "25", "5", "50", "75"}

(* JSON.parse of a string, as far as Joi.array() uses it (convert): the      *)
(* items when the text is an array of string literals without escapes,       *)
(* written without white space; NoArray stands for a text that is no array.    *)
(* A text that does not open with "[" and close with "]" is no array.        *)
NoArray == <<Undefined>>

RECURSIVE JsonItems(_)
JsonItems(s) ==
    \* s is what follows "[" or ",": a string literal, then "," or "]"
    IF Len(s) < 3 \/ Ch(s, 1) # "\"" THEN NoArray
    ELSE LET close == CHOOSE i \in 2..(Len(s) + 1) :
                          /\ i = Len(s) + 1 \/ Ch(s, i) = "\""
                          /\ \A j \in 2..(i - 1) : Ch(s, j) # "\""
             after == SubSeq(s, close + 1, Len(s))
         IN  IF close > Len(s) \/ Len(after) = 0 THEN NoArray
             ELSE IF after = "]" THEN <<Str(SubSeq(s, 2, close - 1))>>
             ELSE IF Ch(after, 1) = ","
                  THEN LET more == JsonItems(Rest(after))
                       IN  IF more = NoArray THEN more
                           ELSE <<Str(SubSeq(s, 2, close - 1))>> \o more
             ELSE NoArray

SafeParse(s) ==
    IF s = "[]" THEN Arr(<<>>)
    ELSE IF Len(s) > 2 /\ Ch(s, 1) = "["
         THEN LET items == JsonItems(Rest(s))
              IN  IF items = NoArray THEN Str(s) ELSE Arr(items)
    ELSE Str(s)

\* Joi.array() reads a string holding a JSON array as that array.
JoiArrayValue(v) == IF v.t = "string" THEN SafeParse(v.s) ELSE v

\* simfinParameters: each rule, on a value that is present.
simfinParameters_ticker(v) ==
    /\ JoiString(v)
    /\ AllIn(v.s, Letters \cup Digits)
    /\ Len(v.s) >= TickerMin
    /\ Len(v.s) <= TickerMax

simfinParameters_companyId(v) == JoiInteger(v)

simfinParameters_indicators(v) ==
    LET x == JoiArrayValue(v)
    IN  /\ x.t = "array"
        /\ \A i \in DOMAIN x.a : JoiString(x.a[i]) /\ IndicatorRegex(x.a[i].s)

simfinParameters_statementType(v) ==
    v.t = "string" /\ v.s \in Range(statementTypes)

simfinParameters_periodType(v) ==
    \/ v.t = "string" /\ v.s \in Range(periodTypes)
    \/ JoiString(v) /\ TTMRegex(v.s)

\* A faulty fiscalYear rule, its upper limit exclusive.
simfinParameters_fiscalYear_Exclusive(v) ==
    /\ JoiInteger(v)
    /\ JoiNumberValue(v).n >= FiscalYearMin
    /\ JoiNumberValue(v).n < FiscalYearMax

simfinParameters_fiscalYear(v) ==
    /\ JoiInteger(v)
    /\ JoiNumberValue(v).n >= FiscalYearMin
    /\ JoiNumberValue(v).n <= FiscalYearMax

\* A key without required(): undefined passes.
Optional(v, ok) == v.t = "undefined" \/ ok
\* schema.required(): undefined fails.
Required(v, ok) == v.t # "undefined" /\ ok

statementRequestSchema(o) ==
    /\ Required(o.companyId, simfinParameters_companyId(o.companyId))
    /\ Required(o.statementType, simfinParameters_statementType(o.statementType))
    /\ Required(o.periodType, simfinParameters_periodType(o.periodType))
    /\ Required(o.fiscalYear, simfinParameters_fiscalYear(o.fiscalYear))

\* A faulty ratios schema, companyId not required().
ttmFinancialRatiosRequestSchema_Optional(o) ==
    /\ Optional(o.companyId, simfinParameters_companyId(o.companyId))
    /\ Optional(o.indicators, simfinParameters_indicators(o.indicators))

ttmFinancialRatiosRequestSchema(o) ==
    /\ Required(o.companyId, simfinParameters_companyId(o.companyId))
    /\ Optional(o.indicators, simfinParameters_indicators(o.indicators))

\* The error of Joi.validate(value, schema): null ("") when the value passes.
ValidationError == "ValidationError"
JoiValidate(ok) == IF ok THEN "" ELSE ValidationError

-----------------------------------------------------------------------------
(* The client: what each method does up to the point where it returns its  *)
(* promise. A method either rejects at once (req is empty, err the error)  *)
(* or hands one options object to the HTTP collaborator (req holds it).    *)

DefaultBaseURL == "https://simfin.com/api/v1/"

\* An omitted params argument (undefined); an object is <<[key |-> value]>>.
NoParams == <<>>

\* A faulty merge, the token spread last: {...params, 'api-key': this.token}
QueryString_TokenLast(params) ==
    LET p == IF params = NoParams THEN <<>> ELSE params[1]
    IN  [k \in {"api-key"} \cup DOMAIN p |-> IF k = "api-key" THEN token ELSE p[k]]

\* {'api-key': this.token, ...params}
QueryString(params) ==
    LET p == IF params = NoParams THEN <<>> ELSE params[1]
    IN  [k \in {"api-key"} \cup DOMAIN p |->
            IF k \in DOMAIN p THEN p[k] ELSE token]

Reject(error) == [req |-> <<>>, err |-> error]

\* A faulty makeRequest that keeps one options object for the client: the
\* query of the request before is still in it when the next one is built.
makeRequest_Shared(route, method, params) ==
    [req |-> << [method |-> method,
                 uri |-> baseURL \o route,
                 qs |-> IF wire = <<>> THEN QueryString(params)
                        ELSE QueryString(params) @@ wire[Len(wire)].options.qs,
                 json |-> TRUE] >>,
     err |-> ""]

makeRequest(route, method, params) ==
    [req |-> << [method |-> method,
                 uri |-> baseURL \o route,
                 qs |-> QueryString(params),
                 json |-> TRUE] >>,
     err |-> ""]

getCompanyIdByTicker(ticker) ==
    LET error == JoiValidate(Optional(ticker, simfinParameters_ticker(ticker)))
    IN  IF error # "" THEN Reject(error)
        ELSE makeRequest("info/find-id/ticker/" \o TemplateStr(ticker), "GET", NoParams)

getCompanyIdByName(name) ==
    makeRequest("info/find-id/name-search/" \o TemplateStr(name), "GET", NoParams)

getAllCompanies == makeRequest("info/all-entities", "GET", NoParams)

getCompanyDataById(companyId) ==
    makeRequest("companies/id/" \o TemplateStr(companyId), "GET", NoParams)

getAvailableCompanyStatements(companyId) ==
    makeRequest("companies/id/" \o TemplateStr(companyId) \o "/statements/list",
                "GET", NoParams)

\* A faulty getStatementData, the two route suffixes swapped.
getStatementData_Flipped(companyId, statementType, periodType, fiscalYear, standardisedArg) ==
    LET standardised ==
            IF standardisedArg.t = "undefined" THEN Bool(FALSE) ELSE standardisedArg
        error == JoiValidate(statementRequestSchema(
                     [companyId |-> companyId, statementType |-> statementType,
                      periodType |-> periodType, fiscalYear |-> fiscalYear]))
        params == [stype |-> statementType, ptype |-> periodType, fyear |-> fiscalYear]
        url == "companies/id/" \o TemplateStr(companyId) \o "/statements/"
    IN  IF error # "" THEN Reject(error)
        ELSE makeRequest(url \o (IF Truthy(standardised) THEN "original" ELSE "standardised"),
                         "GET", <<params>>)

getStatementData(companyId, statementType, periodType, fiscalYear, standardisedArg) ==
    LET \* standardised = false: the default of an omitted argument
        standardised ==
            IF standardisedArg.t = "undefined" THEN Bool(FALSE) ELSE standardisedArg
        error == JoiValidate(statementRequestSchema(
                     [companyId |-> companyId, statementType |-> statementType,
                      periodType |-> periodType, fiscalYear |-> fiscalYear]))
        params == [stype |-> statementType, ptype |-> periodType, fyear |-> fiscalYear]
        url == "companies/id/" \o TemplateStr(companyId) \o "/statements/"
    IN  IF error # "" THEN Reject(error)
        ELSE makeRequest(url \o (IF Truthy(standardised) THEN "standardised" ELSE "original"),
                         "GET", <<params>>)

getTTMFinancialRatios(companyId, indicators) ==
    LET error == JoiValidate(ttmFinancialRatiosRequestSchema(
                     [companyId |-> companyId, indicators |-> indicators]))
        route == "companies/id/" \o TemplateStr(companyId) \o "/ratios"
    IN  IF error # "" THEN Reject(error)
        ELSE IF Truthy(indicators)
             THEN \* indicators.join is no function unless indicators is an
                  \* array: the async method rejects with the TypeError
                  IF indicators.t # "array" THEN Reject("TypeError")
                  ELSE makeRequest(route, "GET",
                                   <<[indicators |-> Str(Join(indicators.a, ","))]>>)
             ELSE makeRequest(route, "GET", NoParams)

\* A faulty settlement that catches the collaborator's error and returns
\* nothing.
Settle_Swallow(call, status, val, err) ==
    IF status = "rejected"
    THEN [call EXCEPT !.state = "resolved", !.val = Undefined, !.err = ""]
    ELSE [call EXCEPT !.state = status, !.val = val, !.err = err]

\* The promise an async method returns follows the promise of rp(options):
\* return rp(options), return this.makeRequest(...).
Settle(call, status, val, err) ==
    [call EXCEPT !.state = status, !.val = val, !.err = err]

-----------------------------------------------------------------------------
(* State.                                                                   *)
(*   baseURL, token  the client's configuration                             *)
(*   calls  the method calls made so far, each with its arguments and the   *)
(*          state of the promise it returned                                *)
(*   wire   the options objects handed to the HTTP collaborator, each with  *)
(*          the call that issued it (cid) and the collaborator's answer     *)
(*   ret    what the last catalog getter returned                           *)

MaxCalls == 2

Tokens == {Str("k1")}
BaseURLs == {DefaultBaseURL, "http://httpbin.org"}

NoReturn == [op |-> "", list |-> <<>>, map |-> <<>>]

Init ==
    /\ baseURL = DefaultBaseURL
    /\ token \in Tokens
    /\ calls = <<>>
    /\ wire = <<>>
    /\ ret = NoReturn

\* A call of method op with arguments args, whose body came to res.
Invoke(op, args, res) ==
    /\ calls' = Append(calls,
                       [op |-> op, args |-> args,
                        state |-> IF res.req = <<>> THEN "rejected" ELSE "pending",
                        val |-> Undefined, err |-> res.err])
    /\ wire' = IF res.req = <<>> THEN wire
               ELSE Append(wire, [cid |-> Len(calls) + 1, options |-> res.req[1],
                                  status |-> "pending", val |-> Undefined, err |-> ""])
    /\ UNCHANGED <<baseURL, token, ret>>

Call_makeRequest(route, method, params) ==
    Invoke("makeRequest", <<route, method, params>>, makeRequest(route, method, params))

Call_getCompanyIdByTicker(ticker) ==
    Invoke("getCompanyIdByTicker", <<ticker>>, getCompanyIdByTicker(ticker))

Call_getCompanyIdByName(name) ==
    Invoke("getCompanyIdByName", <<name>>, getCompanyIdByName(name))

Call_getAllCompanies ==
    Invoke("getAllCompanies", <<>>, getAllCompanies)

Call_getCompanyDataById(companyId) ==
    Invoke("getCompanyDataById", <<companyId>>, getCompanyDataById(companyId))

Call_getAvailableCompanyStatements(companyId) ==
    Invoke("getAvailableCompanyStatements", <<companyId>>,
           getAvailableCompanyStatements(companyId))

Call_getStatementData(a) ==
    Invoke("getStatementData", a, getStatementData(a[1], a[2], a[3], a[4], a[5]))

Call_getTTMFinancialRatios(a) ==
    Invoke("getTTMFinancialRatios", a, getTTMFinancialRatios(a[1], a[2]))

getFinancialIndicators == [op |-> "getFinancialIndicators", list |-> <<>>, map |-> indicatorsMap]
\* A faulty getStatementTypes that returns the period types.
getStatementTypes_Periods == [op |-> "getStatementTypes", list |-> periodTypes, map |-> <<>>]
getStatementTypes == [op |-> "getStatementTypes", list |-> statementTypes, map |-> <<>>]
getPeriodTypes == [op |-> "getPeriodTypes", list |-> periodTypes, map |-> <<>>]

Call_getFinancialIndicators ==
    ret' = getFinancialIndicators /\ UNCHANGED <<baseURL, token, calls, wire>>

Call_getStatementTypes ==
    ret' = getStatementTypes /\ UNCHANGED <<baseURL, token, calls, wire>>

Call_getPeriodTypes ==
    ret' = getPeriodTypes /\ UNCHANGED <<baseURL, token, calls, wire>>

\* simfinInstance.baseURL = ...: the tests point the client at another host
\* after constructing it, before they call it.
SetBaseURL(url) ==
    /\ calls = <<>>
    /\ baseURL # url
    /\ baseURL' = url
    /\ UNCHANGED <<token, calls, wire, ret>>

\* The HTTP collaborator answers request j with the parsed body val.
HttpResolve(j, val) ==
    /\ wire[j].status = "pending"
    /\ wire' = [wire EXCEPT ![j].status = "resolved", ![j].val = val]
    /\ calls' = [calls EXCEPT ![wire[j].cid] = Settle(@, "resolved", val, "")]
    /\ UNCHANGED <<baseURL, token, ret>>

\* The HTTP collaborator fails request j with err.
HttpReject(j, err) ==
    /\ wire[j].status = "pending"
    /\ wire' = [wire EXCEPT ![j].status = "rejected", ![j].err = err]
    /\ calls' = [calls EXCEPT ![wire[j].cid] = Settle(@, "rejected", Undefined, err)]
    /\ UNCHANGED <<baseURL, token, ret>>

-----------------------------------------------------------------------------
(* Spec: up to MaxCalls calls pending side by side, arguments from a few    *)
(* cases per method.                                                        *)

TickerArgs == {Str("AAPL"), Str("A")}
NameArgs == {Str("Apple")}
CompanyIdArgs == {Num(12)}
StatementArgs ==
    {<<Num(12), Str("pl"), Str("FY"), Num(2017), Bool(TRUE)>>,
     <<Num(12), Str("pl"), Str("FY"), Num(2019), Undefined>>}
RatioArgs ==
    {<<Num(12), Arr(<<Str("1-1"), Str("2-1")>>)>>,
     <<Num(12), Str("[]")>>}
RequestArgs ==
    {<<"/get", "GET", <<[hello |-> Str("world")]>> >>}
ResponseValues == {Arr(<<>>), Str("ok")}
TransportErrors == {"StatusCodeError"}

Next ==
    \/ Len(calls) < MaxCalls /\ \E a \in RequestArgs : Call_makeRequest(a[1], a[2], a[3])
    \/ Len(calls) < MaxCalls /\ \E t \in TickerArgs : Call_getCompanyIdByTicker(t)
    \/ Len(calls) < MaxCalls /\ \E n \in NameArgs : Call_getCompanyIdByName(n)
    \/ Len(calls) < MaxCalls /\ Call_getAllCompanies
    \/ Len(calls) < MaxCalls /\ \E c \in CompanyIdArgs : Call_getCompanyDataById(c)
    \/ Len(calls) < MaxCalls /\ \E c \in CompanyIdArgs : Call_getAvailableCompanyStatements(c)
    \/ Len(calls) < MaxCalls /\ \E a \in StatementArgs : Call_getStatementData(a)
    \/ Len(calls) < MaxCalls /\ \E a \in RatioArgs : Call_getTTMFinancialRatios(a)
    \/ Call_getFinancialIndicators
    \/ Call_getStatementTypes
    \/ Call_getPeriodTypes
    \/ \E u \in BaseURLs : SetBaseURL(u)
    \/ \E j \in DOMAIN wire, v \in ResponseValues : HttpResolve(j, v)
    \/ \E j \in DOMAIN wire, e \in TransportErrors : HttpReject(j, e)

Spec == Init /\ [][Next]_vars

-----------------------------------------------------------------------------
(* SpecV: one call of one method, its arguments drawn from every kind of    *)
(* value a caller can pass, and the collaborator's answer to it.            *)

AllTickers ==
    {Str("AAPL"), Str("AB"), Str("a1"), Str("ABCDEFGHIJ"), Str("undefined"),
     Str("A"), Str(""), Str("ABCDEFGHIJK"), Str("A-B"), Str("A B"), Str("BRK.A"),
     Num(12), Undefined, Null, Bool(TRUE), Arr(<<Str("AAPL")>>)}
AllNames == {Str("Apple"), Str("Apple Inc"), Str(""), Undefined, Num(1)}
AllCompanyIds ==
    {Num(12), Num(0), Num(0 - 3), Dec(125, 1), Str("12"), Str("12.0"), Str("1.5"),
     Str("ab"), Str(""), Undefined, Null, NaN, Bool(TRUE), Arr(<<>>)}
SomeCompanyIds == {Num(12), Dec(125, 1), Str("12"), Str("ab"), Undefined, Null}
AllStatementTypes ==
    {Str("pl"), Str("bs"), Str("cf"), Str("PL"), Str("p"), Str(""), Undefined, Num(1)}
AllPeriodTypes ==
    {Str("Q1"), Str("Q4"), Str("H2"), Str("9M"), Str("FY"),
     Str("TTM"), Str("TTM-1"), Str("TTM-12.75"), Str("TTM-1.50"),
     Str("TTM-"), Str("TTM-123"), Str("TTM-1.3"), Str("Q5"), Str("fy"), Str(""),
     Undefined, Num(1)}
AllFiscalYears ==
    {Num(1899), Num(1900), Num(2017), Num(2018), Num(2019), Dec(20175, 1),
     Str("2017"), Str("2019"), Str("2017.5"), Str("year"), Str(""),
     Undefined, Null, NaN}
AllStandardised ==
    {Bool(TRUE), Bool(FALSE), Undefined, Null, Num(0), Num(1), Str(""), Str("no")}
AllIndicators ==
    {Undefined, Null, Arr(<<>>), Arr(<<Str("1-1")>>),
     Arr(<<Str("1-1"), Str("2-1")>>), Arr(<<Str("2-1"), Str("1-1")>>),
     Arr(<<Str("4-12"), Str("0-3"), Str("4-12")>>),
     Arr(<<Str("5-1")>>), Arr(<<Str("1-123")>>), Arr(<<Str("1-1"), Str("")>>),
     Arr(<<Str("1-1"), Num(3)>>), Arr(<<Str("1-1"), Undefined>>), Arr(<<Null>>),
     Str("1-1"), Str("1-1,2-1"), Str(""), Str("[]"), Str("[\"1-1\"]"),
     Str("[\"1-1\",\"2-1\"]"), Str("[\"x\"]"), Num(1), Bool(TRUE), Bool(FALSE)}
AllParams ==
    {NoParams, <<[hello |-> Str("world")]>>, << <<>> >>,
     <<[hello |-> Undefined]>>,
     <<("api-key" :> Str("mine"))>>,
     <<("api-key" :> Undefined)>>,
     <<("api-key" :> Str("mine")) @@ [hello |-> Str("world"), n |-> Num(1)]>>}
AllRoutes == {"/get", "info/all-entities", ""}
AllMethods == {"GET", "POST"}
AllResponseValues == {Arr(<<>>), Str("ok"), Undefined, Null}
AllTransportErrors == {"StatusCodeError", "RequestError"}

NextV ==
    \/ calls = <<>> /\ \E r \in AllRoutes, m \in AllMethods, p \in AllParams :
                           Call_makeRequest(r, m, p)
    \/ calls = <<>> /\ \E t \in AllTickers : Call_getCompanyIdByTicker(t)
    \/ calls = <<>> /\ \E n \in AllNames : Call_getCompanyIdByName(n)
    \/ calls = <<>> /\ Call_getAllCompanies
    \/ calls = <<>> /\ \E c \in AllCompanyIds : Call_getCompanyDataById(c)
    \/ calls = <<>> /\ \E c \in AllCompanyIds : Call_getAvailableCompanyStatements(c)
    \/ calls = <<>> /\ \E c \in SomeCompanyIds, st \in AllStatementTypes,
                           pt \in AllPeriodTypes, fy \in AllFiscalYears,
                           sd \in AllStandardised :
                           Call_getStatementData(<<c, st, pt, fy, sd>>)
    \/ calls = <<>> /\ \E c \in AllCompanyIds, i \in AllIndicators :
                           Call_getTTMFinancialRatios(<<c, i>>)
    \/ \E u \in BaseURLs : SetBaseURL(u)
    \/ \E j \in DOMAIN wire, v \in AllResponseValues : HttpResolve(j, v)
    \/ \E j \in DOMAIN wire, e \in AllTransportErrors : HttpReject(j, e)

SpecV == Init /\ [][NextV]_vars

-----------------------------------------------------------------------------
(* What the claims speak of *)

\* The requests call i handed to the HTTP collaborator.
RequestsOf(i) == {j \in DOMAIN wire : wire[j].cid = i}

\* Call i was rejected with err and handed nothing to the collaborator.
RejectedAtOnce(i, err) ==
    /\ calls[i].state = "rejected"
    /\ calls[i].err = err
    /\ RequestsOf(i) = {}

\* Call i handed the collaborator exactly one request, a GET of route.
IssuedOne(i, route) ==
    /\ Cardinality(RequestsOf(i)) = 1
    /\ \A j \in RequestsOf(i) :
          /\ wire[j].options.method = "GET"
          /\ wire[j].options.uri = baseURL \o route

IsInteger(v) == v.t = "number" /\ v.e = 0
IsIntegerIn(v, lo, hi) == IsInteger(v) /\ lo <= v.n /\ v.n <= hi
IsAlnumString(v, lo, hi) ==
    /\ v.t = "string"
    /\ lo <= Len(v.s) /\ Len(v.s) <= hi
    /\ \A k \in 1..Len(v.s) : Ch(v.s, k) \in Letters \cup Digits
\* A string that spells a number reads as that number.
AsNumber(v) == IF v.t = "string" THEN ParseFloat(v.s) ELSE v
IsStatementType(v) == v.t = "string" /\ v.s \in {"pl", "bs", "cf"}
IsPeriodType(v) ==
    /\ v.t = "string"
    /\ \/ v.s \in {"Q1", "Q2", "Q3", "Q4", "H1", "H2", "9M", "FY"}
       \/ TTMRegex(v.s)
IsIndicatorList(v) ==
    /\ v.t = "array"
    /\ \A k \in DOMAIN v.a : v.a[k].t = "string" /\ IndicatorRegex(v.a[k].s)
Absent(v) == v.t = "undefined"

-----------------------------------------------------------------------------
\* C1: no request handed to the HTTP collaborator carries a field that fails
\* its declared constraint: a ticker that is given is an alphanumeric string
\* of 2 to 10 characters, a companyId is an integer (or spells one), and the
\* fields of a statement request are a statement type, a period type and a
\* fiscal year in [1900, 2018].
C1_NoInvalidFieldIssued ==
    \A j \in DOMAIN wire :
        LET c == calls[wire[j].cid]
        IN  /\ c.op = "getCompanyIdByTicker"
                  => Absent(c.args[1]) \/ IsAlnumString(c.args[1], 2, 10)
            /\ c.op \in {"getCompanyDataById", "getAvailableCompanyStatements",
                         "getStatementData", "getTTMFinancialRatios"}
                  => IsInteger(AsNumber(c.args[1]))
            /\ c.op = "getStatementData"
                  => /\ IsStatementType(c.args[2])
                     /\ IsPeriodType(c.args[3])
                     /\ IsIntegerIn(AsNumber(c.args[4]), 1900, 2018)

\* C2: getCompanyIdByTicker rejects every ticker that is no alphanumeric
\* string of 2 to 10 characters with the validation error, handing nothing to
\* the collaborator, and requests exactly info/find-id/ticker/{ticker} for
\* every ticker that is one.
C2_TickerValidated ==
    \A i \in DOMAIN calls :
        calls[i].op = "getCompanyIdByTicker" =>
            IF IsAlnumString(calls[i].args[1], 2, 10)
            THEN IssuedOne(i, "info/find-id/ticker/" \o calls[i].args[1].s)
            ELSE RejectedAtOnce(i, ValidationError)

\* Whether v stands for an integer in [lo, hi]; with convert, a string that
\* spells a number stands for that number.
StandsForIntegerIn(v, lo, hi, convert) ==
    IsIntegerIn(IF convert THEN AsNumber(v) ELSE v, lo, hi)

\* The four fields of a getStatementData call are there, and the last three
\* are a statement type, a period type and a fiscal year.
C3_Fields(a, convert) ==
    /\ ~Absent(a[1]) /\ ~Absent(a[2]) /\ ~Absent(a[3]) /\ ~Absent(a[4])
    /\ IsStatementType(a[2])
    /\ IsPeriodType(a[3])
    /\ StandsForIntegerIn(a[4], 1900, 2018, convert)

C3_Statement(convert) ==
    \A i \in DOMAIN calls :
        calls[i].op = "getStatementData" =>
            LET a == calls[i].args
            IN  /\ ~C3_Fields(a, convert) => RejectedAtOnce(i, ValidationError)
                /\ a[4] \in {Num(1899), Num(2019)} => RejectedAtOnce(i, ValidationError)
                /\ (a[4] \in {Num(1900), Num(2018)} /\ C3_Fields(a, convert)
                      /\ IsInteger(a[1]))
                      => Cardinality(RequestsOf(i)) = 1

\* C3 as claimed: getStatementData is rejected with the validation error,
\* without a request, whenever fiscalYear is not an integer in [1900, 2018],
\* statementType is outside {pl, bs, cf}, periodType is neither a fixed
\* period nor a TTM pattern match, or one of the four fields is absent; 1900
\* and 2018 are accepted, 1899 and 2019 rejected.
C3_RejectsNonIntegerYear == C3_Statement(FALSE)

\* C3 as amended: the same, where a fiscalYear that is a string spelling an
\* integer in [1900, 2018] counts as that integer (Joi converts it).
C3_RejectsUnreadableYear == C3_Statement(TRUE)

\* A getStatementData call with the year 2019 and every other field valid
\* was rejected.
C3_Witness ==
    \E i \in DOMAIN calls :
        /\ calls[i].op = "getStatementData"
        /\ calls[i].args[4] = Num(2019)
        /\ IsInteger(calls[i].args[1])
        /\ IsStatementType(calls[i].args[2])
        /\ IsPeriodType(calls[i].args[3])
        /\ RejectedAtOnce(i, ValidationError)

C4_Ratios(convert) ==
    \A i \in DOMAIN calls :
        calls[i].op = "getTTMFinancialRatios" =>
            LET a == calls[i].args
                idOk == IsInteger(IF convert THEN AsNumber(a[1]) ELSE a[1])
            IN  /\ (\/ Absent(a[1])
                    \/ ~idOk
                    \/ ~Absent(a[2]) /\ ~IsIndicatorList(a[2]))
                      => calls[i].state = "rejected" /\ RequestsOf(i) = {}
                /\ (idOk /\ Absent(a[2]))
                      => Cardinality(RequestsOf(i)) = 1

\* C4 as claimed: getTTMFinancialRatios is rejected without a request
\* whenever companyId is absent or not an integer, or indicators is present
\* and is no sequence of strings matching ^[0-4]-\d{1,2}$; with an integer
\* companyId and no indicators a request is issued.
C4_RejectsNonIntegerCompany == C4_Ratios(FALSE)

\* C4 as amended: the same, where a companyId that is a string spelling an
\* integer counts as that integer (Joi converts it).
C4_RejectsUnreadableCompany == C4_Ratios(TRUE)

\* A ratios call with an integer companyId and an indicator code outside the
\* pattern was rejected without a request.
C4_Witness ==
    \E i \in DOMAIN calls :
        /\ calls[i].op = "getTTMFinancialRatios"
        /\ calls[i].args = <<Num(12), Arr(<<Str("5-1")>>)>>
        /\ calls[i].state = "rejected"
        /\ RequestsOf(i) = {}

\* C5: the query of every request is the caller's params merged over
\* {'api-key': token}: 'api-key' is always there, with the token unless
\* params holds the key, and then with the caller's value; every other key of
\* params is passed on unchanged and no key is added.
C5_QueryIsParamsOverToken ==
    \A j \in DOMAIN wire :
        LET c == calls[wire[j].cid]
            qs == wire[j].options.qs
        IN  /\ "api-key" \in DOMAIN qs
            /\ c.op # "makeRequest" => qs["api-key"] = token
            /\ c.op = "makeRequest" =>
                  LET given == IF c.args[3] = <<>> THEN <<>> ELSE c.args[3][1]
                  IN  /\ DOMAIN qs = DOMAIN given \cup {"api-key"}
                      /\ \A k \in DOMAIN given : qs[k] = given[k]
                      /\ "api-key" \notin DOMAIN given => qs["api-key"] = token

\* makeRequest was called with params holding both 'api-key' and another key,
\* and its request carries the caller's 'api-key'.
C5_Witness ==
    \E j \in DOMAIN wire :
        /\ calls[wire[j].cid].op = "makeRequest"
        /\ calls[wire[j].cid].args[3] # <<>>
        /\ {"api-key", "hello"} \subseteq DOMAIN calls[wire[j].cid].args[3][1]
        /\ wire[j].options.qs["api-key"] = Str("mine")
        /\ wire[j].options.qs["api-key"] # token

C6_Valid(a) ==
    /\ IsInteger(AsNumber(a[1]))
    /\ IsStatementType(a[2])
    /\ IsPeriodType(a[3])
    /\ IsIntegerIn(AsNumber(a[4]), 1900, 2018)

\* C6: for valid companyId, statementType, periodType and fiscalYear,
\* getStatementData issues one GET of
\* companies/id/{companyId}/statements/standardised when standardised is
\* truthy, of .../statements/original when it is false or omitted (or falsy),
\* whose query besides the token is {stype, ptype, fyear} as the caller
\* passed them.
C6_StatementRequest ==
    \A i \in DOMAIN calls :
        (calls[i].op = "getStatementData" /\ C6_Valid(calls[i].args)) =>
            LET a == calls[i].args
                suffix == IF Truthy(a[5]) THEN "standardised" ELSE "original"
            IN  /\ a[5] \in {Bool(FALSE), Undefined} => suffix = "original"
                /\ IssuedOne(i, "companies/id/" \o TemplateStr(a[1])
                                  \o "/statements/" \o suffix)
                /\ \A j \in RequestsOf(i) :
                      LET qs == wire[j].options.qs
                      IN  /\ DOMAIN qs = {"api-key", "stype", "ptype", "fyear"}
                          /\ qs["stype"] = a[2]
                          /\ qs["ptype"] = a[3]
                          /\ qs["fyear"] = a[4]

\* getStatementData(12, 'pl', 'FY', 2017, true) requested the standardised
\* statement.
C6_Witness ==
    \E j \in DOMAIN wire :
        /\ calls[wire[j].cid].op = "getStatementData"
        /\ calls[wire[j].cid].args = <<Num(12), Str("pl"), Str("FY"), Num(2017), Bool(TRUE)>>
        /\ wire[j].options.uri = baseURL \o "companies/id/12/statements/standardised"
        /\ wire[j].options.qs["fyear"] = Num(2017)

\* The codes of items joined by ",", first to last.
RECURSIVE C7_Joined(_)
C7_Joined(items) ==
    IF items = <<>> THEN ""
    ELSE LET n == Len(items)
             front == C7_Joined(SubSeq(items, 1, n - 1))
         IN  (IF n = 1 THEN "" ELSE front \o ",") \o items[n].s

\* C7: for a valid companyId, getTTMFinancialRatios with a valid sequence of
\* indicators issues a GET of companies/id/{companyId}/ratios whose query
\* besides the token is {indicators: the codes joined by ',' in their
\* order}; without indicators the query holds the token alone.
C7_RatiosRequest ==
    \A i \in DOMAIN calls :
        LET a == calls[i].args
        IN  (/\ calls[i].op = "getTTMFinancialRatios"
             /\ IsInteger(AsNumber(a[1]))
             /\ Absent(a[2]) \/ IsIndicatorList(a[2])) =>
                /\ IssuedOne(i, "companies/id/" \o TemplateStr(a[1]) \o "/ratios")
                /\ \A j \in RequestsOf(i) :
                      LET qs == wire[j].options.qs
                      IN  IF Absent(a[2])
                          THEN DOMAIN qs = {"api-key"}
                          ELSE /\ DOMAIN qs = {"api-key", "indicators"}
                               /\ qs["indicators"] = Str(C7_Joined(a[2].a))

\* getTTMFinancialRatios(12, ['1-1', '2-1']) asked for indicators '1-1,2-1'.
C7_Witness ==
    \E j \in DOMAIN wire :
        /\ calls[wire[j].cid].op = "getTTMFinancialRatios"
        /\ calls[wire[j].cid].args = <<Num(12), Arr(<<Str("1-1"), Str("2-1")>>)>>
        /\ wire[j].options.qs["indicators"] = Str("1-1,2-1")

\* C8: a call ends in one of two outcomes, never in a success nobody
\* answered: it hands the collaborator at most one request; with none it is
\* rejected with the error that stopped it; with one it is pending while the
\* request is, resolved with the very value the collaborator resolved with,
\* and rejected with the very error the collaborator rejected with.
C8_OutcomeIsTheCollaborators ==
    \A i \in DOMAIN calls :
        LET c == calls[i]
            rs == RequestsOf(i)
        IN  /\ Cardinality(rs) <= 1
            /\ rs = {} => c.state = "rejected" /\ c.err \in {ValidationError, "TypeError"}
            /\ \A j \in rs :
                  \/ wire[j].status = "pending" /\ c.state = "pending"
                  \/ /\ wire[j].status = "resolved"
                     /\ c.state = "resolved" /\ c.val = wire[j].val /\ c.err = ""
                  \/ /\ wire[j].status = "rejected"
                     /\ wire[j].err # ""
                     /\ c.state = "rejected" /\ c.err = wire[j].err

\* One call was resolved with the collaborator's value and another rejected
\* with the collaborator's error.
C8_Witness ==
    \E i, k \in DOMAIN calls :
        /\ calls[i].state = "resolved" /\ calls[i].val = Str("ok")
        /\ calls[k].state = "rejected" /\ calls[k].err = "StatusCodeError"

C9_Constant(r) ==
    \/ r.op = "getStatementTypes" /\ r.list = <<"pl", "bs", "cf">>
    \/ r.op = "getPeriodTypes"
          /\ r.list = <<"Q1", "Q2", "Q3", "Q4", "H1", "H2", "9M", "FY">>
    \/ r.op = "getFinancialIndicators" /\ r.map = indicatorsMap

\* C9: a step in which a catalog getter returns hands nothing to the HTTP
\* collaborator and leaves baseURL, token and the calls as they were, and
\* what it returns is the constant of that getter, whatever came before: the
\* indicator catalog, [pl, bs, cf], [Q1, Q2, Q3, Q4, H1, H2, 9M, FY].
C9_GettersReturnConstants ==
    [][ret' # ret =>
          /\ UNCHANGED <<baseURL, token, calls, wire>>
          /\ C9_Constant(ret')]_vars

\* getStatementTypes returned after requests were issued against another
\* base URL.
C9_Witness ==
    /\ ret.op = "getStatementTypes"
    /\ wire # <<>>
    /\ baseURL # DefaultBaseURL

\* The request of a call, from its own arguments: the route and the params.
C10_Route(op, a) ==
    CASE op = "makeRequest" -> a[1]
      [] op = "getCompanyIdByTicker" -> "info/find-id/ticker/" \o TemplateStr(a[1])
      [] op = "getCompanyIdByName" -> "info/find-id/name-search/" \o TemplateStr(a[1])
      [] op = "getAllCompanies" -> "info/all-entities"
      [] op = "getCompanyDataById" -> "companies/id/" \o TemplateStr(a[1])
      [] op = "getAvailableCompanyStatements" ->
             "companies/id/" \o TemplateStr(a[1]) \o "/statements/list"
      [] op = "getStatementData" ->
             "companies/id/" \o TemplateStr(a[1]) \o "/statements/"
                 \o (IF Truthy(a[5]) THEN "standardised" ELSE "original")
      [] op = "getTTMFinancialRatios" -> "companies/id/" \o TemplateStr(a[1]) \o "/ratios"

C10_Params(op, a) ==
    CASE op = "makeRequest" -> (IF a[3] = <<>> THEN <<>> ELSE a[3][1])
      [] op = "getStatementData" -> [stype |-> a[2], ptype |-> a[3], fyear |-> a[4]]
      [] op = "getTTMFinancialRatios" ->
             (IF IsIndicatorList(a[2]) THEN [indicators |-> Str(C7_Joined(a[2].a))] ELSE <<>>)
      [] OTHER -> <<>>

C10_Options(c, url, key) ==
    LET p == C10_Params(c.op, c.args)
    IN  [method |-> IF c.op = "makeRequest" THEN c.args[2] ELSE "GET",
         uri |-> url \o C10_Route(c.op, c.args),
         qs |-> [k \in DOMAIN p \cup {"api-key"} |-> IF k \in DOMAIN p THEN p[k] ELSE key],
         json |-> TRUE]

\* C10: in every step, with calls pending side by side: a step of a method
\* or of the collaborator writes neither baseURL nor token; the arguments of
\* a call and a request once issued never change; a request newly issued
\* belongs to the call newly made and is built from that call's arguments
\* and the configuration alone; and the outcome of a call changes only when
\* the collaborator answers that call's own request, to that answer.
C10_CallsAreIndependent ==
    [][/\ (calls' # calls \/ wire' # wire \/ ret' # ret)
            => baseURL' = baseURL /\ token' = token
       /\ Len(calls') \in {Len(calls), Len(calls) + 1}
       /\ Len(wire') \in {Len(wire), Len(wire) + 1}
       /\ \A i \in DOMAIN calls :
             /\ calls'[i].op = calls[i].op
             /\ calls'[i].args = calls[i].args
             /\ calls'[i] # calls[i] =>
                   \E j \in DOMAIN wire :
                       /\ wire[j].cid = i
                       /\ wire[j].status = "pending"
                       /\ wire'[j].status # "pending"
                       /\ calls'[i].state = wire'[j].status
                       /\ calls'[i].val = wire'[j].val
                       /\ calls'[i].err = wire'[j].err
       /\ \A j \in DOMAIN wire :
             /\ wire'[j].cid = wire[j].cid
             /\ wire'[j].options = wire[j].options
             /\ wire'[j] # wire[j] =>
                   \A k \in DOMAIN wire \ {j} : wire'[k] = wire[k]
       /\ \A j \in DOMAIN wire' \ DOMAIN wire :
             /\ wire'[j].cid \in DOMAIN calls' \ DOMAIN calls
             /\ wire'[j].options = C10_Options(calls'[wire'[j].cid], baseURL, token)
      ]_vars

\* Two requests of different methods were pending together, and the later
\* one was answered first.
C10_Witness ==
    \E j, k \in DOMAIN wire :
        /\ j < k
        /\ calls[wire[j].cid].op = "getStatementData"
        /\ calls[wire[k].cid].op = "getTTMFinancialRatios"
        /\ wire[j].status = "pending" /\ calls[wire[j].cid].state = "pending"
        /\ wire[k].status = "resolved" /\ calls[wire[k].cid].state = "resolved"

====
